---- MODULE Spec2Model ----
(***************************************************************************)
(* A model of the useChat hook (src/src/hooks/useChat.tsx): the socket     *)
(* connection effect, the registration handshake, the chat directory, the  *)
(* conversation store and the outbound send / read-receipt emissions.      *)
(*                                                                         *)
(* The hook's state is carried in the variables below.  The handlers are   *)
(* written as operators over a record h of that state (Hook), so that a    *)
(* handler calling another (onUserRegistered -> emitListChats, the effect  *)
(* -> emitRegisterUser) is a composition of operators.  Every action ends  *)
(* with Commit: React re-renders after a state change and re-runs the      *)
(* effect when one of its dependencies differs from the previous render.   *)
(***************************************************************************)
EXTENDS Integers, Sequences, FiniteSets, TLC

\* ------------------------------------------------------------------ bounds
MaxTs == 2          \* timestamps are 1..MaxTs
MaxLen == 2         \* longest message list in a payload
MaxSummaries == 3   \* longest summary list in a chatsList response
MaxPending == 2     \* most requests of one kind awaiting a reply
MaxAutoRegs == 2    \* the history counter autoRegs saturates here

UserIds == {"t1", "t2"}
ChatIds == {"c1", "c2", "c3"}
MsgIds == {"m1", "m2"}

\* ------------------------------------------------------------------ data
\* a JS string is truthy unless empty (undefined is modelled as "")
Truthy(s) == s # ""

\* the fields of the teacher context's info that the hook reads
TeacherInfos ==
    [teacherID : {"", "t1"}, preferredName : {"", "A"}, firstName : {"", "B"},
     lastName : {"", "C"}, profilePictureURL : {"p", "q"}]

\* what getInfo() can return: only teacherID is read
StoredIds == {"", "t1", "t2"}

ChatUser == [userId : UserIds]

ChatMessage ==
    [messageId : MsgIds, sender : ChatUser, timestamp : 1..MaxTs, isRead : BOOLEAN]

\* the server assigns a message its id and its timestamp once
TimestampOf == [m \in MsgIds |-> IF m = "m1" THEN 1 ELSE 2]

ChatSummary == [chatId : ChatIds, latestMessage : [timestamp : 1..MaxTs]]

SeqsUpTo(S, n) == UNION {[1..k -> S] : k \in 0..n}

Emission(ev, payload) == [event |-> ev, payload |-> payload]

\* undefined, as in messages[0] of an empty array
Undefined == [undefined |-> TRUE]

VARIABLES
    info,               \* useTeacherContext().info
    storedId,           \* getInfo()?.teacherID
    socket,             \* socketRef.current # null
    ioCalls,            \* number of io(...) calls so far
    handlerChats,       \* the chats value the subscribed handlers closed over
    isRegistering, isRegistered,
    chats, chatSummaries, areChatsLoading, areChatsLoaded,
    chatMessages, areMessagesLoading,
    mounted,            \* the effect has run at least once
    lastDeps,           \* the dependency array of the last effect run
    sent,               \* the events emitted on the socket by the last action
    regQ, listChatsN, listMsgsQ,   \* requests the server has not answered yet
    last,               \* the operation the last action performed
    autoRegs            \* history: registerUser emissions of the effect since
                        \* the identity last became complete

vars ==
    <<info, storedId, socket, ioCalls, handlerChats, isRegistering, isRegistered,
      chats, chatSummaries, areChatsLoading, areChatsLoaded, chatMessages,
      areMessagesLoading, mounted, lastDeps, sent, regQ, listChatsN, listMsgsQ,
      last, autoRegs>>

\* the hook's state as one record, sent emptied for the action that starts
Hook ==
    [info |-> info, storedId |-> storedId, socket |-> socket, ioCalls |-> ioCalls,
     handlerChats |-> handlerChats, isRegistering |-> isRegistering,
     isRegistered |-> isRegistered, chats |-> chats,
     chatSummaries |-> chatSummaries, areChatsLoading |-> areChatsLoading,
     areChatsLoaded |-> areChatsLoaded, chatMessages |-> chatMessages,
     areMessagesLoading |-> areMessagesLoading, mounted |-> mounted,
     lastDeps |-> lastDeps, sent |-> <<>>, autoRegs |-> autoRegs]

\* socketRef.current?.emit(ev, payload)
Emit(h, ev, payload) ==
    IF h.socket THEN [h EXCEPT !.sent = Append(@, Emission(ev, payload))] ELSE h

\* --------------------------------------------------------- registration
emitRegisterUser(h, params) ==
    Emit([h EXCEPT !.isRegistering = TRUE], "registerUser", params)

emitListChats(h, params) ==
    Emit([h EXCEPT !.areChatsLoading = TRUE, !.areChatsLoaded = FALSE],
         "listChatRooms", params)

\* mutant: the success handler forgets the directory refresh
onUserRegistered_NoRefresh(h, userId) ==
    [h EXCEPT !.isRegistering = FALSE, !.isRegistered = TRUE]

onUserRegistered(h, userId) ==
    emitListChats([h EXCEPT !.isRegistering = FALSE, !.isRegistered = TRUE],
                  [userId |-> userId])

onRegisterUserError(h) == h

\* ------------------------------------------------------------ chats list
\* mutant: the comparator sorts ascending
Compare_Ascending(a, b) == a.latestMessage.timestamp - b.latestMessage.timestamp

\* the comparator handed to toSorted
Compare(a, b) == b.latestMessage.timestamp - a.latestMessage.timestamp

\* x goes before the first element it compares below; equal elements keep
\* their order (Array.prototype.toSorted is a stable sort)
RECURSIVE InsertSorted(_, _)
InsertSorted(x, s) ==
    IF s = <<>> THEN <<x>>
    ELSE IF Compare(x, Head(s)) < 0
         THEN <<x>> \o s
         ELSE <<Head(s)>> \o InsertSorted(x, Tail(s))

RECURSIVE ToSorted(_)
ToSorted(s) ==
    IF s = <<>> THEN <<>>
    ELSE InsertSorted(s[Len(s)], ToSorted(SubSeq(s, 1, Len(s) - 1)))

onChatsList(h, chatsList) ==
    [h EXCEPT !.chatSummaries = ToSorted(chatsList),
              !.areChatsLoading = FALSE,
              !.areChatsLoaded = TRUE]

\* mutant: the error handler empties the list
onListChatsError_Clear(h) == [h EXCEPT !.chatSummaries = << >>]

onListChatsError(h) == h

\* --------------------------------------------------------- messages list
\* { ...obj, [k]: v }
Spread(obj, k, v) == [x \in (DOMAIN obj) \cup {k} |-> IF x = k THEN v ELSE obj[x]]

emitListMessages(h, params) ==
    Emit([h EXCEPT !.areMessagesLoading = TRUE], "listMessages", params)

NewestOf(messages) ==
    IF messages = << >> THEN 0
    ELSE CHOOSE t \in {messages[k].timestamp : k \in 1..Len(messages)} :
            \A k \in 1..Len(messages) : messages[k].timestamp <= t

\* mutant: a response is appended to the messages already held
onMessagesList_Append(h, chatId, participants, messagesList) ==
    LET old == IF chatId \in DOMAIN h.chats THEN h.chats[chatId].messages ELSE << >>
    IN  [h EXCEPT !.chats = Spread(h.handlerChats, chatId,
                                   [chatId |-> chatId, participants |-> participants,
                                    messages |-> old \o messagesList]),
                  !.chatMessages = old \o messagesList,
                  !.areMessagesLoading = FALSE]

\* mutant: a response older than what is held is rejected
onMessagesList_RejectOlder(h, chatId, participants, messagesList) ==
    IF /\ chatId \in DOMAIN h.chats
       /\ NewestOf(messagesList) < NewestOf(h.chats[chatId].messages)
    THEN [h EXCEPT !.areMessagesLoading = FALSE]
    ELSE [h EXCEPT !.chats = Spread(h.handlerChats, chatId,
                                    [chatId |-> chatId, participants |-> participants,
                                     messages |-> messagesList]),
                   !.chatMessages = messagesList,
                   !.areMessagesLoading = FALSE]

\* the handler subscribed at socket creation reads the chats of that render
\* (h.handlerChats); both branches of its test build the same object
onMessagesList(h, chatId, participants, messagesList) ==
    [h EXCEPT !.chats = Spread(h.handlerChats, chatId,
                               [chatId |-> chatId, participants |-> participants,
                                messages |-> messagesList]),
              !.chatMessages = messagesList,
              !.areMessagesLoading = FALSE]

\* ------------------------------------------------- sending and receiving
\* mutant: the sent message is shown at once
emitSendMessage_Optimistic(h, params) ==
    Emit([h EXCEPT !.chatMessages =
                     Append(@, [messageId |-> "m1", sender |-> params.sender,
                                timestamp |-> params.timestamp, isRead |-> FALSE])],
         "sendMessage", params)

emitSendMessage(h, params) == Emit(h, "sendMessage", params)

\* mutant: the filter forgets isRead
RECURSIVE UnreadIds_IgnoreRead(_, _)
UnreadIds_IgnoreRead(unreadMessages, teacherId) ==
    IF unreadMessages = <<>> THEN <<>>
    ELSE LET msg == Head(unreadMessages)
             rest == UnreadIds_IgnoreRead(Tail(unreadMessages), teacherId)
         IN  IF msg.sender.userId # teacherId
             THEN <<msg.messageId>> \o rest
             ELSE rest

\* the ids pushed by the forEach, in order
RECURSIVE UnreadIds(_, _)
UnreadIds(unreadMessages, teacherId) ==
    IF unreadMessages = <<>> THEN <<>>
    ELSE LET msg == Head(unreadMessages)
             rest == UnreadIds(Tail(unreadMessages), teacherId)
         IN  IF msg.sender.userId # teacherId /\ ~msg.isRead
             THEN <<msg.messageId>> \o rest
             ELSE rest

\* mutant: the provider's id is preferred to the live one
ResolveTeacherId_StoredFirst(h) ==
    IF Truthy(h.storedId) THEN h.storedId ELSE h.info.teacherID

ResolveTeacherId(h) == IF Truthy(h.info.teacherID) THEN h.info.teacherID ELSE h.storedId

emitReadMessages(h, params) ==
    LET teacherId == ResolveTeacherId(h)
    IN  IF ~Truthy(teacherId) THEN h
        ELSE IF ~h.socket THEN h
        ELSE Emit(h, "readMessages",
                  [roomId |-> params.chatId,
                   unreadMessages |-> UnreadIds(params.unreadMessages, teacherId)])

\* mutant: the acknowledgment carries the last message
FirstOf_Last(messages) == IF Len(messages) > 0 THEN messages[Len(messages)] ELSE Undefined

\* the two acknowledgment handlers are empty
onMessageReceived(h, message) == h

onMessageRead(h, messageId) == h

FirstOf(messages) == IF Len(messages) > 0 THEN messages[1] ELSE Undefined

onNewMessage(h, incomingChat) ==
    Emit([h EXCEPT !.chats = Spread(h.handlerChats, incomingChat.chatId, incomingChat),
                   !.chatMessages = incomingChat.messages],
         "receiveMessage", FirstOf(incomingChat.messages))

\* ------------------------------------------------------------ the effect
Complete(i) ==
    /\ Truthy(i.teacherID)
    /\ Truthy(i.preferredName)
    /\ Truthy(i.firstName)
    /\ Truthy(i.lastName)

RegisterParams(i) ==
    [userId |-> i.teacherID, userType |-> "teacher",
     preferredName |-> i.preferredName, firstName |-> i.firstName,
     lastName |-> i.lastName, profilePictureUrl |-> i.profilePictureURL]

Deps(h) == [info |-> h.info, socket |-> h.socket, isRegistered |-> h.isRegistered]

\* mutant: every run of the effect opens a socket
CreateSocket_EveryRun(h) ==
    [h EXCEPT !.socket = TRUE, !.ioCalls = @ + 1, !.handlerChats = h.chats]

CreateSocket(h) ==
    IF ~h.socket
    THEN [h EXCEPT !.socket = TRUE, !.ioCalls = @ + 1, !.handlerChats = h.chats]
    ELSE h

Bump(n) == IF n < MaxAutoRegs THEN n + 1 ELSE n

\* mutant: the trigger does not look at isRegistered
RegisterGuard_Unguarded(h) == h.socket /\ Complete(h.info)

RegisterGuard(h) == h.socket /\ ~h.isRegistered /\ Complete(h.info)

RegisterTrigger(h) ==
    IF RegisterGuard(h)
    THEN emitRegisterUser([h EXCEPT !.autoRegs = Bump(@)], RegisterParams(h.info))
    ELSE h

ListTrigger(h) ==
    IF h.socket /\ h.isRegistered /\ Truthy(h.info.teacherID)
    THEN emitListChats(h, [userId |-> h.info.teacherID])
    ELSE h

Effect(h) == ListTrigger(RegisterTrigger(CreateSocket(h)))

\* one render: the effect runs on mount and whenever a dependency changed
Render(h) ==
    IF h.mounted /\ Deps(h) = h.lastDeps
    THEN h
    ELSE Effect([h EXCEPT !.mounted = TRUE, !.lastDeps = Deps(h)])

\* what a render shows: a change of any of these schedules a re-render
ReactState(h) ==
    <<h.info, h.isRegistering, h.isRegistered, h.chats, h.chatSummaries,
      h.areChatsLoading, h.areChatsLoaded, h.chatMessages, h.areMessagesLoading>>

RECURSIVE Settle(_)
Settle(h) ==
    LET h1 == Render(h)
    IN  IF ReactState(h1) = ReactState(h) THEN h1 ELSE Settle(h1)

\* after a handler turned pre into post; before the mount the re-render waits
\* for the first run of the effect
Commit(pre, post) ==
    IF ~pre.mounted \/ ReactState(post) = ReactState(pre) THEN post ELSE Settle(post)

\* what the first render showed: the initial useState values
FirstRender(h) == <<h.info, FALSE, FALSE, << >>, << >>, FALSE, FALSE, << >>, FALSE>>

\* the first run of the effect, then the re-renders that its setState calls,
\* or calls made before it, scheduled
MountSettle(h) ==
    LET h1 == Render(h)
    IN  IF ReactState(h1) = FirstRender(h) THEN h1 ELSE Settle(h1)

\* ---------------------------------------------------------------- network
RECURSIVE PayloadsOf(_, _)
PayloadsOf(s, ev) ==
    IF s = <<>> THEN <<>>
    ELSE IF Head(s).event = ev
         THEN <<Head(s).payload>> \o PayloadsOf(Tail(s), ev)
         ELSE PayloadsOf(Tail(s), ev)

CountOf(s, ev) == Len(PayloadsOf(s, ev))

\* the new state of the hook and of the requests in flight; rq, ln, mq are the
\* queues after the action consumed the reply it handles
Apply(h, rq, ln, mq) ==
    LET regs == PayloadsOf(h.sent, "registerUser")
        msgs == PayloadsOf(h.sent, "listMessages")
        rq1 == rq \o [k \in 1..Len(regs) |-> regs[k].userId]
        ln1 == ln + CountOf(h.sent, "listChatRooms")
        mq1 == mq \o [k \in 1..Len(msgs) |-> msgs[k].roomId]
    IN  /\ Len(rq1) <= MaxPending
        /\ ln1 <= MaxPending
        /\ Len(mq1) <= MaxPending
        /\ regQ' = rq1
        /\ listChatsN' = ln1
        /\ listMsgsQ' = mq1
        /\ info' = h.info
        /\ storedId' = h.storedId
        /\ socket' = h.socket
        /\ ioCalls' = h.ioCalls
        /\ handlerChats' = h.handlerChats
        /\ isRegistering' = h.isRegistering
        /\ isRegistered' = h.isRegistered
        /\ chats' = h.chats
        /\ chatSummaries' = h.chatSummaries
        /\ areChatsLoading' = h.areChatsLoading
        /\ areChatsLoaded' = h.areChatsLoaded
        /\ chatMessages' = h.chatMessages
        /\ areMessagesLoading' = h.areMessagesLoading
        /\ mounted' = h.mounted
        /\ lastDeps' = h.lastDeps
        /\ sent' = h.sent
        /\ autoRegs' = h.autoRegs

\* ------------------------------------------------------------------ init
Init ==
    /\ info \in TeacherInfos
    /\ storedId \in StoredIds
    /\ socket = FALSE
    /\ ioCalls = 0
    /\ handlerChats = << >>
    /\ isRegistering = FALSE
    /\ isRegistered = FALSE
    /\ chats = << >>
    /\ chatSummaries = << >>
    /\ areChatsLoading = FALSE
    /\ areChatsLoaded = FALSE
    /\ chatMessages = << >>
    /\ areMessagesLoading = FALSE
    /\ mounted = FALSE
    /\ lastDeps = [info |-> info, socket |-> FALSE, isRegistered |-> FALSE]
    /\ sent = << >>
    /\ regQ = << >>
    /\ listChatsN = 0
    /\ listMsgsQ = << >>
    /\ last = [op |-> "init"]
    /\ autoRegs = 0

\* ------------------------------------------------------------- actions
\* the first run of the effect, after the first render
Mount ==
    /\ ~mounted
    /\ Apply(MountSettle(Hook), regQ, listChatsN, listMsgsQ)
    /\ last' = [op |-> "mount"]

\* the teacher context delivers a new info
SetInfo(i) ==
    /\ mounted
    /\ i # info
    /\ LET pre == Hook
           post == [pre EXCEPT !.info = i,
                               !.autoRegs = IF Complete(i) /\ Complete(info)
                                            THEN @ ELSE 0]
       IN  Apply(Commit(pre, post), regQ, listChatsN, listMsgsQ)
    /\ last' = [op |-> "setInfo"]

CallEmitRegisterUser(params) ==
    /\ LET pre == Hook
       IN  Apply(Commit(pre, emitRegisterUser(pre, params)), regQ, listChatsN, listMsgsQ)
    /\ last' = [op |-> "emitRegisterUser", wasRegistered |-> isRegistered,
                wasRegistering |-> isRegistering]

CallEmitListChats(params) ==
    /\ LET pre == Hook
       IN  Apply(Commit(pre, emitListChats(pre, params)), regQ, listChatsN, listMsgsQ)
    /\ last' = [op |-> "emitListChats"]

OnUserRegistered ==
    /\ socket
    /\ regQ # << >>
    /\ LET pre == Hook
       IN  Apply(Commit(pre, onUserRegistered(pre, Head(regQ))),
                 Tail(regQ), listChatsN, listMsgsQ)
    /\ last' = [op |-> "userRegistered", userId |-> Head(regQ)]

OnRegisterUserError ==
    /\ socket
    /\ regQ # << >>
    /\ LET pre == Hook
       IN  Apply(Commit(pre, onRegisterUserError(pre)), Tail(regQ), listChatsN, listMsgsQ)
    /\ last' = [op |-> "registerUserError"]

OnChatsList(chatsList) ==
    /\ socket
    /\ listChatsN > 0
    /\ LET pre == Hook
       IN  Apply(Commit(pre, onChatsList(pre, chatsList)), regQ, listChatsN - 1, listMsgsQ)
    /\ last' = [op |-> "chatsList", chatsList |-> chatsList]

OnListChatsError ==
    /\ socket
    /\ listChatsN > 0
    /\ LET pre == Hook
       IN  Apply(Commit(pre, onListChatsError(pre)), regQ, listChatsN - 1, listMsgsQ)
    /\ last' = [op |-> "listChatsError", before |-> chatSummaries]

CallEmitListMessages(params) ==
    /\ LET pre == Hook
       IN  Apply(Commit(pre, emitListMessages(pre, params)), regQ, listChatsN, listMsgsQ)
    /\ last' = [op |-> "emitListMessages"]

\* the reply to the oldest listMessages request
OnMessagesList(participants, messagesList) ==
    /\ socket
    /\ listMsgsQ # << >>
    /\ LET pre == Hook
           chatId == Head(listMsgsQ)
       IN  /\ Apply(Commit(pre, onMessagesList(pre, chatId, participants, messagesList)),
                    regQ, listChatsN, Tail(listMsgsQ))
           /\ last' = [op |-> "messagesList", chatId |-> chatId,
                       participants |-> participants, messages |-> messagesList,
                       known |-> chatId \in DOMAIN chats,
                       others |-> (DOMAIN chats) \ {chatId} # {},
                       repeat |-> /\ last.op = "messagesList"
                                  /\ last.chatId = chatId
                                  /\ last.participants = participants
                                  /\ last.messages = messagesList,
                       stale |-> /\ chatId \in DOMAIN chats
                                 /\ NewestOf(messagesList)
                                      < NewestOf(chats[chatId].messages)]

\* a server push
OnNewMessage(incomingChat) ==
    /\ socket
    /\ LET pre == Hook
       IN  Apply(Commit(pre, onNewMessage(pre, incomingChat)), regQ, listChatsN, listMsgsQ)
    /\ last' = [op |-> "newMessage", incomingChat |-> incomingChat,
                known |-> incomingChat.chatId \in DOMAIN chats,
                dropped |-> /\ incomingChat.chatId \in DOMAIN chats
                            /\ \E k \in 1..Len(chats[incomingChat.chatId].messages) :
                                 \A j \in 1..Len(incomingChat.messages) :
                                    incomingChat.messages[j]
                                      # chats[incomingChat.chatId].messages[k]]

CallEmitSendMessage(params) ==
    /\ LET pre == Hook
       IN  Apply(Commit(pre, emitSendMessage(pre, params)), regQ, listChatsN, listMsgsQ)
    /\ last' = [op |-> "emitSendMessage", params |-> params]

CallEmitReadMessages(params) ==
    /\ LET pre == Hook
       IN  Apply(Commit(pre, emitReadMessages(pre, params)), regQ, listChatsN, listMsgsQ)
    /\ last' = [op |-> "emitReadMessages", params |-> params]

OnMessageReceived(message) ==
    /\ socket
    /\ LET pre == Hook
       IN  Apply(Commit(pre, onMessageReceived(pre, message)), regQ, listChatsN, listMsgsQ)
    /\ last' = [op |-> "messageReceived"]

OnMessageRead(messageId) ==
    /\ socket
    /\ LET pre == Hook
       IN  Apply(Commit(pre, onMessageRead(pre, messageId)), regQ, listChatsN, listMsgsQ)
    /\ last' = [op |-> "messageRead"]

\* ------------------------------------------------------------ input sets
CallerRegisterParams ==
    {RegisterParams([teacherID |-> u, preferredName |-> "A", firstName |-> "B",
                     lastName |-> "C", profilePictureURL |-> ""]) : u \in UserIds}

Distinct(s) == \A i, j \in 1..Len(s) : i # j => s[i].chatId # s[j].chatId

\* chatsList responses: at most n summaries, of distinct chats among ids
SummaryLists(ids, n) ==
    {s \in SeqsUpTo({c \in ChatSummary : c.chatId \in ids}, n) : Distinct(s)}

\* the messages the server sends in this model
ServerMessages ==
    {[messageId |-> m, sender |-> [userId |-> "t2"], timestamp |-> TimestampOf[m],
      isRead |-> FALSE] : m \in MsgIds}

MessageLists == SeqsUpTo(ServerMessages, MaxLen)

ParticipantLists == {<<[userId |-> "t1"]>>, <<[userId |-> "t1"], [userId |-> "t2"]>>}

StoreChatIds == {"c1", "c2"}

IncomingChats == [chatId : StoreChatIds, participants : ParticipantLists, messages : MessageLists]

SendParams ==
    [roomId : StoreChatIds, sender : {[userId |-> "t1"]}, message : {"hi"}, timestamp : 1..MaxTs]

\* markRead candidates: own unread, foreign unread and foreign read messages
\* (timestamps play no part in the filter)
CandidateMessages ==
    {m \in ChatMessage : m.timestamp = 1 /\ (m.isRead => m.sender.userId = "t2")}

CandidateLists == SeqsUpTo(CandidateMessages, MaxLen)

ReadParams == [chatId : StoreChatIds, unreadMessages : CandidateLists]

\* ------------------------------------------------------- specifications
Registration ==
    \/ Mount
    \/ \E i \in TeacherInfos : SetInfo(i)
    \/ \E p \in CallerRegisterParams : CallEmitRegisterUser(p)
    \/ OnUserRegistered
    \/ OnRegisterUserError

Directory(lists) ==
    \/ \E u \in UserIds : CallEmitListChats([userId |-> u])
    \/ \E l \in lists : OnChatsList(l)
    \/ OnListChatsError

Store ==
    \/ \E c \in StoreChatIds : CallEmitListMessages([roomId |-> c, userId |-> "t1"])
    \/ \E p \in ParticipantLists, m \in MessageLists : OnMessagesList(p, m)
    \/ \E c \in IncomingChats : OnNewMessage(c)

Dispatcher ==
    \/ \E p \in SendParams : CallEmitSendMessage(p)
    \/ \E p \in ReadParams : CallEmitReadMessages(p)
    \/ \E m \in ServerMessages : OnMessageReceived(m)
    \/ \E m \in MsgIds : OnMessageRead(m)

Next ==
    \/ Registration
    \/ Directory(SummaryLists(ChatIds, MaxSummaries))
    \/ Store
    \/ Dispatcher

Spec == Init /\ [][Next]_vars

\* a session whose identity has not arrived
InitIdle ==
    /\ Init
    /\ info = [teacherID |-> "", preferredName |-> "", firstName |-> "",
               lastName |-> "", profilePictureURL |-> "p"]
    /\ storedId = ""

\* a session whose identity is complete from the start
InitReady ==
    /\ Init
    /\ info = [teacherID |-> "t1", preferredName |-> "A", firstName |-> "B",
               lastName |-> "C", profilePictureURL |-> "p"]
    /\ storedId = "t1"

\* the identity's names are settled; the ids are not
InitNamed ==
    /\ Init
    /\ info.preferredName = "A" /\ info.firstName = "B" /\ info.lastName = "C"
    /\ info.profilePictureURL = "p"

\* registration handshake; the directory replies carry no summaries
NextRegistrar == Registration \/ Directory({<< >>})

SpecRegistrar == Init /\ [][NextRegistrar]_vars

\* chat directory of a registered session
NextDirectory ==
    \/ Mount
    \/ OnUserRegistered
    \/ Directory(SummaryLists(ChatIds, MaxSummaries))

SpecDirectory == InitReady /\ [][NextDirectory]_vars

\* conversation store
NextStore ==
    \/ Mount
    \/ Store
    \/ \E p \in SendParams : CallEmitSendMessage(p)

SpecStore == InitIdle /\ [][NextStore]_vars

\* conversation store next to a small directory
NextSession ==
    \/ Mount
    \/ Directory(SummaryLists(StoreChatIds, 1))
    \/ Store

SpecSession == InitIdle /\ [][NextSession]_vars

\* outbound emissions
NextDispatcher ==
    \/ Mount
    \/ Dispatcher

SpecDispatcher == InitNamed /\ [][NextDispatcher]_vars

\* ------------------------------------------------------------- claims
HasEmission(ev, payload) == \E k \in 1..Len(sent) : sent[k] = Emission(ev, payload)

\* C1: the effect emits registerUser at most once per incomplete-to-complete
\* transition of the identity: since the identity last became complete, the
\* effect has emitted at most one registerUser.
C1_OncePerTransition == autoRegs <= 1

\* C2: once isRegistered is true, no action other than the caller's own
\* emitRegisterUser call emits registerUser, whatever the identity does.
C2_NoAutoRegisterOnceRegistered ==
    (isRegistered /\ last.op # "emitRegisterUser") => CountOf(sent, "registerUser") = 0

C2_Witness ==
    /\ isRegistered
    /\ last.op = "setInfo"
    /\ Complete(info)
    /\ lastDeps.info = info

\* C3: emitRegisterUser called while already registered is a no-op: nothing
\* is emitted and isRegistering and isRegistered are as before.
C3_RegisterIdempotent ==
    (last.op = "emitRegisterUser" /\ last.wasRegistered) =>
        /\ sent = << >>
        /\ isRegistering = last.wasRegistering
        /\ isRegistered

\* C4: after a userRegistered {userId} is handled, isRegistering is false,
\* isRegistered is true, the directory is loading and not loaded, and a
\* listChatRooms carrying that userId has been emitted by the same step.
C4_RegisteredTriggersRefresh ==
    last.op = "userRegistered" =>
        /\ ~isRegistering
        /\ isRegistered
        /\ areChatsLoading
        /\ ~areChatsLoaded
        /\ HasEmission("listChatRooms", [userId |-> last.userId])

C4_Witness ==
    /\ last.op = "userRegistered"
    /\ last.userId = "t2"
    /\ info.teacherID # "t2"
    /\ HasEmission("listChatRooms", [userId |-> "t2"])

\* C5: after a registerUserError is handled, isRegistering is false and
\* isRegistered is still false.
C5_ErrorClearsInFlight ==
    last.op = "registerUserError" => (~isRegistering /\ ~isRegistered)

\* C6: after a chatsList response is handled, the stored summaries are a
\* permutation of the response, in descending order of
\* latestMessage.timestamp, summaries of equal timestamp in the order of the
\* response; loading is false and loaded is true.
PositionIn(x, s) == CHOOSE k \in 1..Len(s) : s[k] = x

C6_SortedStablePermutation ==
    last.op = "chatsList" =>
        LET in == last.chatsList
            out == chatSummaries
        IN  /\ Len(out) = Len(in)
            /\ \A i \in 1..Len(in) : \E j \in 1..Len(out) : out[j] = in[i]
            /\ \A i, j \in 1..Len(out) :
                   i < j => /\ out[i].latestMessage.timestamp
                                >= out[j].latestMessage.timestamp
                            /\ (out[i].latestMessage.timestamp
                                  = out[j].latestMessage.timestamp
                                => PositionIn(out[i], in) < PositionIn(out[j], in))
            /\ ~areChatsLoading
            /\ areChatsLoaded

C6_Witness ==
    /\ last.op = "chatsList"
    /\ Len(last.chatsList) = 3
    /\ last.chatsList[1].latestMessage.timestamp < last.chatsList[3].latestMessage.timestamp
    /\ last.chatsList[1].latestMessage.timestamp = last.chatsList[2].latestMessage.timestamp
    /\ chatSummaries = <<last.chatsList[3], last.chatsList[1], last.chatsList[2]>>

\* C7: for every conversation id in both the summary list and the chats
\* store, the summary's latestMessage.timestamp is at least the largest
\* timestamp among the messages stored for that id.
C7_SummaryNotOlderThanStore ==
    \A k \in 1..Len(chatSummaries) :
        chatSummaries[k].chatId \in DOMAIN chats =>
            \A j \in 1..Len(chats[chatSummaries[k].chatId].messages) :
                chatSummaries[k].latestMessage.timestamp
                    >= chats[chatSummaries[k].chatId].messages[j].timestamp

\* C8: a messagesList response for c leaves the store entries of every other
\* conversation id unchanged, and no step removes an id from the store.
C8_OtherEntriesKept ==
    [][/\ (DOMAIN chats) \subseteq (DOMAIN chats')
       /\ last'.op = "messagesList" =>
             \A c \in (DOMAIN chats) \ {last'.chatId} :
                 c \in DOMAIN chats' /\ chats'[c] = chats[c]]_vars

\* C9: after a newMessage push is handled the store holds, under the pushed
\* id, exactly the pushed conversation (new entry or wholesale replacement),
\* and the step emitted exactly one receiveMessage, carrying the first
\* message of the pushed list when the list has one.
C9_PushReplacesAndAcks ==
    last.op = "newMessage" =>
        LET c == last.incomingChat
        IN  /\ c.chatId \in DOMAIN chats
            /\ chats[c.chatId] = c
            /\ CountOf(sent, "receiveMessage") = 1
            /\ Len(sent) = 1
            /\ Len(c.messages) > 0 => sent[1].payload = c.messages[1]

C9_Witness ==
    /\ last.op = "newMessage"
    /\ last.known
    /\ last.dropped
    /\ Len(last.incomingChat.messages) = 1
    /\ sent = <<Emission("receiveMessage", last.incomingChat.messages[1])>>

\* C10: when a current-user id is resolvable and the socket exists, markRead
\* emits exactly one readMessages request, for the given conversation id,
\* whose ids are those of the candidates sent by someone else and not yet
\* read, in candidate order.
C10_ReadReceiptIsFilter ==
    LET me == IF info.teacherID # "" THEN info.teacherID ELSE storedId
    IN  (last.op = "emitReadMessages" /\ me # "" /\ socket) =>
            LET cand == last.params.unreadMessages
                E == {k \in 1..Len(cand) :
                        cand[k].sender.userId # me /\ ~cand[k].isRead}
            IN  /\ Len(sent) = 1
                /\ sent[1].event = "readMessages"
                /\ sent[1].payload.roomId = last.params.chatId
                /\ Len(sent[1].payload.unreadMessages) = Cardinality(E)
                /\ \A k \in E :
                       sent[1].payload.unreadMessages[Cardinality({j \in E : j <= k})]
                           = cand[k].messageId

C10_Witness ==
    /\ last.op = "emitReadMessages"
    /\ socket
    /\ info.teacherID = "t1"
    /\ Len(last.params.unreadMessages) = 2
    /\ last.params.unreadMessages[1].sender.userId = "t1"
    /\ last.params.unreadMessages[2].sender.userId = "t2"
    /\ ~last.params.unreadMessages[2].isRead
    /\ sent = <<Emission("readMessages",
                         [roomId |-> last.params.chatId,
                          unreadMessages |-> <<last.params.unreadMessages[2].messageId>>])>>

\* the state the hook returns or guards on
CoreState ==
    <<socket, isRegistering, isRegistered, chats, chatSummaries, areChatsLoading,
      areChatsLoaded, chatMessages, areMessagesLoading>>

\* ids are the ids of the candidates not sent by me and not read, in order
IsReceiptFor(ids, cand, me) ==
    LET E == {k \in 1..Len(cand) : cand[k].sender.userId # me /\ ~cand[k].isRead}
    IN  /\ Len(ids) = Cardinality(E)
        /\ \A k \in E : ids[Cardinality({j \in E : j <= k})] = cand[k].messageId

\* C11: a markRead with no teacherID in info and none from getInfo() emits
\* nothing and changes no state; with the socket present, the receipt is
\* computed against info.teacherID when it is there and against the
\* provider's id only when it is not.
C11_NoIdNoReceipt ==
    [][last'.op = "emitReadMessages" =>
         /\ (info.teacherID = "" /\ storedId = "") =>
                (sent' = << >> /\ CoreState' = CoreState)
         /\ (socket /\ info.teacherID # "") =>
                /\ Len(sent') = 1
                /\ IsReceiptFor(sent'[1].payload.unreadMessages,
                                last'.params.unreadMessages, info.teacherID)
         /\ (socket /\ info.teacherID = "" /\ storedId # "") =>
                /\ Len(sent') = 1
                /\ IsReceiptFor(sent'[1].payload.unreadMessages,
                                last'.params.unreadMessages, storedId)]_vars

C11_Witness ==
    /\ last.op = "emitReadMessages"
    /\ socket
    /\ info.teacherID = ""
    /\ storedId = ""
    /\ Len(last.params.unreadMessages) = 2
    /\ \A k \in 1..2 : ~last.params.unreadMessages[k].isRead
    /\ sent = << >>

\* C12: a messagesList response applied right after the same response for
\* the same conversation id leaves the store, the displayed messages and the
\* loading flag as the first application left them.
C12_MessagesListIdempotent ==
    [][(/\ last.op = "messagesList"
        /\ last'.op = "messagesList"
        /\ last'.chatId = last.chatId
        /\ last'.participants = last.participants
        /\ last'.messages = last.messages) =>
           /\ chats' = chats
           /\ chatMessages' = chatMessages
           /\ areMessagesLoading' = areMessagesLoading]_vars

C12_Witness ==
    /\ last.op = "messagesList"
    /\ last.repeat
    /\ Len(last.messages) = 2
    /\ chatMessages = last.messages
    /\ ~areMessagesLoading

\* C13: an emit operation called while there is no socket emits nothing and
\* leaves the state, the three in-flight flags included, as it was.
EmitOps ==
    {"emitRegisterUser", "emitListChats", "emitListMessages", "emitSendMessage",
     "emitReadMessages"}

C13_NoChannelNoOp ==
    [][(~socket /\ last'.op \in EmitOps) =>
           (sent' = << >> /\ CoreState' = CoreState)]_vars

\* C14: after a listChatsError is handled the summary list is the one held
\* before it.
C14_ErrorKeepsList ==
    last.op = "listChatsError" => chatSummaries = last.before

C14_Witness ==
    /\ last.op = "listChatsError"
    /\ Len(chatSummaries) = 2
    /\ listChatsN > 0

\* C15: io() is called at most once: by the first run of the effect and by
\* no later one; the socket exists exactly from that run on, and the
\* handlers keep the closure of their one subscription.
C15_OneChannel ==
    /\ ioCalls <= 1
    /\ socket <=> (ioCalls = 1)
    /\ mounted <=> socket
    /\ handlerChats = << >>

C15_Witness ==
    /\ ioCalls = 1
    /\ isRegistered
    /\ last.op = "setInfo"
    /\ lastDeps.info = info
    /\ lastDeps.socket
    /\ lastDeps.isRegistered

\* C16: a send emits one sendMessage with its parameters and leaves the
\* store, the displayed messages, the summaries and every flag as they were.
C16_SendOnlyEmits ==
    [][last'.op = "emitSendMessage" =>
         /\ CoreState' = CoreState
         /\ sent' = IF socket THEN <<Emission("sendMessage", last'.params)>> ELSE << >>]_vars

C16_Witness ==
    /\ last.op = "emitSendMessage"
    /\ sent = <<Emission("sendMessage", last.params)>>
    /\ "c1" \in DOMAIN chats
    /\ last.params.roomId = "c1"
    /\ Len(chatMessages) = 1
    /\ chatMessages = chats["c1"].messages

\* C17: a newMessage push for a conversation other than the one last
\* fetched leaves the displayed messages as they were.
C17_PushForOtherKeepsDisplay ==
    [][(/\ last.op = "messagesList"
        /\ last'.op = "newMessage"
        /\ last'.incomingChat.chatId # last.chatId) =>
           chatMessages' = chatMessages]_vars

\* C18: after a messagesList response or a newMessage push is handled, the
\* store entry of its conversation id is the payload just applied, whatever
\* was held before and whatever the timestamps.
C18_LatestAppliedWins ==
    /\ last.op = "messagesList" =>
          /\ last.chatId \in DOMAIN chats
          /\ chats[last.chatId] = [chatId |-> last.chatId,
                                    participants |-> last.participants,
                                    messages |-> last.messages]
    /\ last.op = "newMessage" =>
          /\ last.incomingChat.chatId \in DOMAIN chats
          /\ chats[last.incomingChat.chatId] = last.incomingChat

C18_Witness ==
    /\ last.op = "messagesList"
    /\ last.known
    /\ last.stale
    /\ listMsgsQ # << >>
    /\ chats[last.chatId].messages = last.messages

\* C19: while a listMessages request awaits its messagesList response,
\* areMessagesLoading is true.
C19_LoadingWhileOutstanding ==
    listMsgsQ # << >> => areMessagesLoading

\* C20: once every listChatRooms request has been answered, by chatsList or
\* by listChatsError, areChatsLoading is false.
C20_AnsweredMeansNotLoading ==
    (listChatsN = 0 /\ last.op \in {"chatsList", "listChatsError"}) => ~areChatsLoading
====
